---------------------------- MODULE Spec2Model ----------------------------
(***************************************************************************)
(* Model of the two scripts of DIP_Quant_Resolution:                       *)
(*   src/image_quantization.py             quantize_image,                 *)
(*                                         measure_execution_time,         *)
(*                                         load_and_quantize               *)
(*   src/spatial_resolution_modification.py reduce_spatial_resolution,     *)
(*                                         measure_execution_time,         *)
(*                                         load_and_resize                 *)
(*                                                                         *)
(* An image is a record [dtype, height, width, px]; px is the sequence of  *)
(* its rows.  Python's None is the record NoneImage.  The outcome of a     *)
(* call is a record [err, img]: err is "ok" when the call returned, and    *)
(* otherwise names the exception that left it.                             *)
(***************************************************************************)
EXTENDS Integers, Sequences, FiniteSets

(***************************************************************************)
(* Bounds of the model.                                                    *)
(***************************************************************************)
\* largest height of an enumerated image
MaxHeight == 2
\* largest width of an enumerated image
MaxWidth == 5
\* largest reduction factor tried
MaxFactor == 3
\* longest enumerated batch of parameter values
MaxBatch == 2
\* the harness's repetition count (the scripts use 1000 and 100)
Repetitions == 3

Max(a, b) == IF a >= b THEN a ELSE b
Min(a, b) == IF a <= b THEN a ELSE b

(***************************************************************************)
(* Images                                                                  *)
(***************************************************************************)
NoneImage == [dtype |-> "NoneType", height |-> 0, width |-> 0, px |-> <<>>]

\* px is the sequence of the h rows, each a sequence of w samples
MkImage(dtype, h, w, px) == [dtype |-> dtype, height |-> h, width |-> w, px |-> px]

ConstantImage(h, w, v) ==
  MkImage("uint8", h, w, [r \in 1..h |-> [c \in 1..w |-> v]])

\* every sample bg except the one at (r0, c0), which is v
Impulse(h, w, r0, c0, v, bg) ==
  MkImage("uint8", h, w,
          [r \in 1..h |-> [c \in 1..w |-> IF r = r0 /\ c = c0 THEN v ELSE bg]])

\* samples 0, 1, 2, ... row-wise
Gradient(h, w) ==
  MkImage("uint8", h, w,
          [r \in 1..h |-> [c \in 1..w |-> ((r - 1) * w + (c - 1)) % 256]])

IsEmpty(img) == img.height = 0 \/ img.width = 0

\* a present, non-empty grid of unsigned 8-bit samples
ValidImage(img) == img.dtype = "uint8" /\ ~IsEmpty(img)

(***************************************************************************)
(* Outcomes of a call                                                      *)
(***************************************************************************)
Return(img) == [err |-> "ok", img |-> img]
Raise(e) == [err |-> e, img |-> NoneImage]

ErrImageNone == "ValueError: Image not found or cannot be read"
ErrNotUint8 == "ValueError: Input image must be an 8-bit grayscale image"
ErrBitDepth == "ValueError: Bit depth must be between 1 and 8"
ErrFactor == "ValueError: Reduction factor must be >= 1"
ErrCv2 == "cv2.error"

\* The error taxonomy read onto the raise statements: the two image checks
\* report the image, the range checks report the parameter; an exception of
\* the library belongs to neither.
ErrorKind(e) ==
  IF e \in {ErrImageNone, ErrNotUint8} THEN "InvalidInput"
  ELSE IF e \in {ErrBitDepth, ErrFactor} THEN "InvalidArgument"
  ELSE IF e = "ok" THEN "none"
  ELSE "other"

(***************************************************************************)
(* quantize_image                                                          *)
(***************************************************************************)
BitDepthOutOfRange_LowerOffByOne(bit_depth) == bit_depth < 0 \/ bit_depth > 8

BitDepthOutOfRange(bit_depth) == bit_depth < 1 \/ bit_depth > 8

\* rounds to the nearest level instead of truncating
QuantizeSample_Nearest(x, scale_factor) ==
  (((x + scale_factor \div 2) \div scale_factor) * scale_factor) % 256

\* multiplies back by the number of levels instead of the step
QuantizeSample_Levels(x, scale_factor) ==
  ((x \div scale_factor) * (256 \div scale_factor)) % 256

\* (image // scale_factor) * scale_factor on one uint8 sample
QuantizeSample(x, scale_factor) == ((x \div scale_factor) * scale_factor) % 256

quantize_image(image, bit_depth) ==
  IF image.dtype = "NoneType" THEN Raise(ErrImageNone)
  ELSE IF image.dtype # "uint8" THEN Raise(ErrNotUint8)
  ELSE IF BitDepthOutOfRange(bit_depth) THEN Raise(ErrBitDepth)
  ELSE LET levels == 2 ^ bit_depth
           scale_factor == 256 \div levels
           quantized_image ==
             [r \in 1..image.height |->
               [c \in 1..image.width |->
                 QuantizeSample(image.px[r][c], scale_factor)]]
       IN  Return(MkImage("uint8", image.height, image.width, quantized_image))

(***************************************************************************)
(* cv2.resize(image, (new_width, new_height), interpolation=INTER_AREA)    *)
(***************************************************************************)
\* |[j*n_src, (j+1)*n_src) /\ [c*n_dst, (c+1)*n_dst)|: the part of source cell
\* c (0-based) under destination cell j, in units of 1/n_dst source cells
Overlap(j, c, n_src, n_dst) ==
  Max(0, Min((j + 1) * n_src, (c + 1) * n_dst) - Max(j * n_src, c * n_dst))

RoundHalfUp(num, den) == (2 * num + den) \div (2 * den)

\* cvRound
RoundHalfEven(num, den) ==
  LET q == num \div den
      r == num % den
  IN  IF 2 * r < den THEN q
      ELSE IF 2 * r > den THEN q + 1
      ELSE IF q % 2 = 0 THEN q ELSE q + 1

\* the weight of source sample k (row-major, 1-based) in destination sample
\* (i, j), times the sample
AreaTerm(src, dw, dh, i, j, k) ==
  LET r == ((k - 1) \div src.width) + 1
      c == ((k - 1) % src.width) + 1
  IN  Overlap(i - 1, r - 1, src.height, dh) * Overlap(j - 1, c - 1, src.width, dw)
        * src.px[r][c]

\* the weighted sum over the first n source samples
RECURSIVE AreaSum(_, _, _, _, _, _)
AreaSum(src, dw, dh, i, j, n) ==
  IF n = 0 THEN 0
  ELSE AreaTerm(src, dw, dh, i, j, n) + AreaSum(src, dw, dh, i, j, n - 1)

\* destination sample (i, j), 1-based: the area-weighted mean of the source
\* samples under it.  The 2 x 2 fast path computes (a + b + c + d + 2) >> 2,
\* every other path rounds the mean with cvRound.
AreaSample(src, dw, dh, i, j) ==
  LET num == AreaSum(src, dw, dh, i, j, src.height * src.width)
      den == src.height * src.width
  IN  IF src.width = 2 * dw /\ src.height = 2 * dh THEN RoundHalfUp(num, den)
      ELSE RoundHalfEven(num, den)

cv2_resize(src, dw, dh) ==
  IF IsEmpty(src) THEN Raise(ErrCv2)
  ELSE IF dw <= 0 \/ dh <= 0 THEN Raise(ErrCv2)
  ELSE IF dw = src.width /\ dh = src.height THEN Return(src)
  ELSE Return(MkImage("uint8", dh, dw,
                      [i \in 1..dh |-> [j \in 1..dw |-> AreaSample(src, dw, dh, i, j)]]))

(***************************************************************************)
(* reduce_spatial_resolution                                               *)
(***************************************************************************)
reduce_spatial_resolution(image, reduction_factor) ==
  IF image.dtype = "NoneType" THEN Raise(ErrImageNone)
  ELSE IF image.dtype # "uint8" THEN Raise(ErrNotUint8)
  ELSE IF reduction_factor < 1 THEN Raise(ErrFactor)
  ELSE LET height == image.height
           width == image.width
           new_height == height \div reduction_factor
           new_width == width \div reduction_factor
       IN  cv2_resize(image, new_width, new_height)

Transform(s, image, p) ==
  IF s = "quantization" THEN quantize_image(image, p)
  ELSE reduce_spatial_resolution(image, p)

\* the input array after a call that wrote its result into it
InputAfterCall_InPlace(s, image, p) ==
  IF Transform(s, image, p).err = "ok" THEN Transform(s, image, p).img ELSE image

\* the input array after a call: both transforms build a new array
InputAfterCall(s, image, p) == image

(***************************************************************************)
(* State                                                                   *)
(***************************************************************************)
VARIABLES
  script,           \* which of the two scripts runs
  pc,               \* the position of the running code
  file,             \* the image file: whether it exists, what imread gives
  image,            \* the input array (the argument / the driver's image)
  loaded,           \* the input array as it was first handed over
  params,           \* the parameter values (bit_depths / reduction_factors)
  idx,              \* the index in params of the value being processed
  reps,             \* iterations of the harness's loop completed for it
  log,              \* every invocation of the transform so far, in order
  result,           \* the outcome of the latest invocation
  result2,          \* the outcome of quantizing a quantized image again
  execution_times,  \* the driver's list of latencies
  out_images,       \* the driver's list of output images
  err,              \* the exception that left the program, "ok" if none
  rendered          \* what the renderer was handed, <<>> before it runs

vars == <<script, pc, file, image, loaded, params, idx, reps, log, result,
          result2, execution_times, out_images, err, rendered>>

Scripts == {"quantization", "spatial"}

NoOutcome == [err |-> "not called", img |-> NoneImage]

(***************************************************************************)
(* Inputs                                                                  *)
(***************************************************************************)
Samples == {0, 1, 2, 3, 127, 128, 200, 255}

Heights == 1..MaxHeight
Widths == 1..MaxWidth

ConstantImages ==
  {ConstantImage(h, w, v) : h \in Heights, w \in Widths, v \in Samples}

ImpulseImages ==
  UNION {{Impulse(h, w, r, c, v, 0) : r \in 1..h, c \in 1..w, v \in Samples \ {0}}
           : h \in Heights, w \in Widths}

GradientImages == {Gradient(h, w) : h \in Heights, w \in Widths}

\* every one-sample image
SingleSampleImages == {ConstantImage(1, 1, v) : v \in 0..255}

\* the two concrete scenarios: 4 x 4 of 200, and the 8 x 8 gradient 0..63
ScenarioImages == {ConstantImage(4, 4, 200), Gradient(8, 8)}

\* zero rows or zero columns
EmptyImages ==
  {ConstantImage(h, w, 0) : h \in 0..MaxHeight, w \in 0..MaxWidth} \ ConstantImages

NonUint8Images ==
  {[Gradient(h, w) EXCEPT !.dtype = d] : h \in {1, MaxHeight}, w \in {1, MaxWidth},
                                         d \in {"uint16", "float64"}}

ValidImages ==
  ConstantImages \cup ImpulseImages \cup GradientImages \cup SingleSampleImages
    \cup ScenarioImages

CallImages == ValidImages \cup EmptyImages \cup NonUint8Images \cup {NoneImage}

BitDepthInputs == 0..9
FactorInputs == (-1)..MaxFactor

ParamInputs(s) == IF s = "quantization" THEN BitDepthInputs ELSE FactorInputs

\* the parameter is in the range its transform documents
ValidParam(s, p) == IF s = "quantization" THEN p \in 1..8 ELSE p >= 1

(***************************************************************************)
(* A single call of a transform, and a second quantization of its result   *)
(***************************************************************************)
CallInit ==
  /\ script \in Scripts
  /\ pc = "call"
  /\ file = [exists |-> TRUE, decoded |-> NoneImage]
  /\ image \in CallImages
  /\ loaded = image
  /\ \E p \in ParamInputs(script) : params = <<p>>
  /\ idx = 1
  /\ reps = 0
  /\ log = <<>>
  /\ result = NoOutcome
  /\ result2 = NoOutcome
  /\ execution_times = <<>>
  /\ out_images = <<>>
  /\ err = "ok"
  /\ rendered = <<>>

Invoke(by) ==
  /\ result' = Transform(script, image, params[idx])
  /\ image' = InputAfterCall(script, image, params[idx])
  /\ log' = Append(log, [i |-> idx, by |-> by,
                         err |-> Transform(script, image, params[idx]).err])

CallQuantize ==
  /\ pc = "call"
  /\ script = "quantization"
  /\ Invoke("caller")
  /\ pc' = "called"
  /\ err' = Transform(script, image, params[idx]).err
  /\ UNCHANGED <<script, file, loaded, params, idx, reps, result2,
                 execution_times, out_images, rendered>>

CallReduce ==
  /\ pc = "call"
  /\ script = "spatial"
  /\ Invoke("caller")
  /\ pc' = "called"
  /\ err' = Transform(script, image, params[idx]).err
  /\ UNCHANGED <<script, file, loaded, params, idx, reps, result2,
                 execution_times, out_images, rendered>>

QuantizeAgain ==
  /\ pc = "called"
  /\ script = "quantization"
  /\ result.err = "ok"
  /\ result2' = quantize_image(result.img, params[idx])
  /\ pc' = "requantized"
  /\ UNCHANGED <<script, file, image, loaded, params, idx, reps, log, result,
                 execution_times, out_images, err, rendered>>

CallNext == CallQuantize \/ CallReduce \/ QuantizeAgain

CallSpec == CallInit /\ [][CallNext]_vars

(***************************************************************************)
(* measure_execution_time and the batch drivers load_and_quantize and      *)
(* load_and_resize                                                         *)
(***************************************************************************)
\* what cv2.imread may give for a file that exists
DecodedImages ==
  GradientImages \cup ScenarioImages
    \cup {ConstantImage(MaxHeight, MaxWidth, 200),
          [Gradient(1, 1) EXCEPT !.dtype = "uint16"], NoneImage}

Files ==
  {[exists |-> FALSE, decoded |-> NoneImage]}
    \cup {[exists |-> TRUE, decoded |-> d] : d \in DecodedImages}

BatchValues(s) ==
  IF s = "quantization" THEN {0, 1, 2, 6, 9} ELSE {0, 1, 2, MaxFactor}

\* every batch of at most MaxBatch values, and the scripts' own two batches
Batches(s) ==
  UNION {[1..n -> BatchValues(s)] : n \in 0..MaxBatch}
    \cup (IF s = "quantization" THEN {<<1, 2, 4, 6>>} ELSE {<<2, 4, 8>>})

Init ==
  /\ script \in Scripts
  /\ pc = "start"
  /\ file \in Files
  /\ image = NoneImage
  /\ loaded = NoneImage
  /\ params \in Batches(script)
  /\ idx = 0
  /\ reps = 0
  /\ log = <<>>
  /\ result = NoOutcome
  /\ result2 = NoOutcome
  /\ execution_times = <<>>
  /\ out_images = <<>>
  /\ err = "ok"
  /\ rendered = <<>>

\* the path check, imread and the two checks of what it gave
Load ==
  /\ pc = "start"
  /\ IF ~file.exists
       THEN /\ pc' = "not loaded"
            /\ UNCHANGED <<image, loaded>>
       ELSE /\ image' = file.decoded
            /\ loaded' = file.decoded
            /\ pc' = IF file.decoded.dtype = "NoneType" THEN "not loaded"
                     ELSE IF file.decoded.dtype # "uint8" THEN "not loaded"
                     ELSE "for"
  /\ UNCHANGED <<script, file, params, idx, reps, log, result, result2,
                 execution_times, out_images, err, rendered>>

\* for bd in bit_depths / for rf in reduction_factors
ForNext ==
  /\ pc = "for"
  /\ IF idx < Len(params)
       THEN /\ idx' = idx + 1
            /\ reps' = 0
            /\ pc' = "measure"
       ELSE /\ pc' = "render"
            /\ UNCHANGED <<idx, reps>>
  /\ UNCHANGED <<script, file, image, loaded, params, log, result, result2,
                 execution_times, out_images, err, rendered>>

\* the driver goes on with the next value after a failure
UncaughtPc_SkipAndContinue == "for"

\* no try/except encloses the calls: the exception leaves the driver
UncaughtPc == "raised"

HarnessFinished_OneShort(n) == n >= Repetitions - 1

\* range(repetitions) is exhausted
HarnessFinished(n) == n >= Repetitions

ListAppend_Prepend(list, x) == <<x>> \o list

\* list.append(x)
ListAppend(list, x) == Append(list, x)

\* one iteration of the harness's loop: one invocation of the transform
HarnessCall ==
  /\ pc = "measure"
  /\ ~HarnessFinished(reps)
  /\ Invoke("harness")
  /\ IF Transform(script, image, params[idx]).err = "ok"
       THEN /\ reps' = reps + 1
            /\ UNCHANGED <<pc, err>>
       ELSE /\ err' = Transform(script, image, params[idx]).err
            /\ pc' = UncaughtPc
            /\ UNCHANGED reps
  /\ UNCHANGED <<script, file, loaded, params, idx, result2, execution_times,
                 out_images, rendered>>

\* the harness returns (end - start) / repetitions; the driver appends it
HarnessReturn ==
  /\ pc = "measure"
  /\ HarnessFinished(reps)
  /\ execution_times' =
       ListAppend(execution_times, [param |-> params[idx], calls |-> reps])
  /\ pc' = "display"
  /\ UNCHANGED <<script, file, image, loaded, params, idx, reps, log, result,
                 result2, out_images, err, rendered>>

\* the invocation for the displayable output, appended to the outputs
Display ==
  /\ pc = "display"
  /\ Invoke("driver")
  /\ IF Transform(script, image, params[idx]).err = "ok"
       THEN /\ out_images' =
                 ListAppend(out_images, Transform(script, image, params[idx]).img)
            /\ pc' = "for"
            /\ UNCHANGED err
       ELSE /\ err' = Transform(script, image, params[idx]).err
            /\ pc' = UncaughtPc
            /\ UNCHANGED out_images
  /\ UNCHANGED <<script, file, loaded, params, idx, reps, result2,
                 execution_times, rendered>>

Zip(a, b) == [k \in 1..Min(Len(a), Len(b)) |-> <<a[k], b[k]>>]

\* the comparison figure and the latency plot are drawn and saved
Render ==
  /\ pc = "render"
  /\ rendered' = <<[original |-> image,
                    comparison |-> Zip(params, out_images),
                    plot |-> Zip(params, execution_times)]>>
  /\ pc' = "done"
  /\ UNCHANGED <<script, file, image, loaded, params, idx, reps, log, result,
                 result2, execution_times, out_images, err>>

Next == Load \/ ForNext \/ HarnessCall \/ HarnessReturn \/ Display \/ Render

Spec == Init /\ [][Next]_vars

\* the scripts run on one thread that nothing stops: a step that can be
\* taken is taken
FairInit == Init /\ file.decoded \notin ScenarioImages

FairSpec == FairInit /\ [][Next]_vars /\ WF_vars(Next)

(***************************************************************************)
(* Claims about a single call                                              *)
(***************************************************************************)
Called == pc \in {"called", "requantized"}

Param == params[1]

Abs(x) == IF x >= 0 THEN x ELSE -x

\* the sum of the first n samples (row-major) of the f x f block of src whose
\* top left sample is (i0, j0)
RECURSIVE BlockSum(_, _, _, _, _)
BlockSum(src, f, i0, j0, n) ==
  IF n = 0 THEN 0
  ELSE src.px[i0 + ((n - 1) \div f)][j0 + ((n - 1) % f)]
         + BlockSum(src, f, i0, j0, n - 1)

\* C1: for every valid 8-bit image and bitDepth in 1..8, quantize_image returns
\* an image of the same dimensions whose every sample is (input // step) * step
\* with step = 256 // 2^bitDepth: a multiple of step, <= the input sample and
\* > the input sample minus step.
C1_QuantizeTruncates ==
  (Called /\ script = "quantization" /\ ValidImage(loaded) /\ Param \in 1..8) =>
    LET step == 256 \div (2 ^ Param) IN
      /\ result.err = "ok"
      /\ result.img.dtype = "uint8"
      /\ result.img.height = loaded.height
      /\ result.img.width = loaded.width
      /\ \A r \in 1..loaded.height : \A c \in 1..loaded.width :
           LET x == loaded.px[r][c]
               y == result.img.px[r][c]
           IN  /\ y = (x \div step) * step
               /\ y % step = 0
               /\ y <= x
               /\ y > x - step

\* the 4 x 4 image of 200 quantized at bitDepth 2 is the 4 x 4 image of 192
C1_Witness ==
  /\ Called
  /\ script = "quantization"
  /\ loaded = ConstantImage(4, 4, 200)
  /\ Param = 2
  /\ result = Return(ConstantImage(4, 4, 192))

\* C2: for every valid 8-bit image of height H and width W and every integer
\* factor >= 1, reduce_spatial_resolution returns an image of exactly
\* floor(H/factor) x floor(W/factor).
C2_ReducedDimensions ==
  (Called /\ script = "spatial" /\ ValidImage(loaded) /\ Param >= 1) =>
    /\ result.err = "ok"
    /\ result.img.height = loaded.height \div Param
    /\ result.img.width = loaded.width \div Param

\* C3: on a valid image, a bitDepth outside 1..8 makes quantize_image fail,
\* and a factor < 1 makes reduce_spatial_resolution fail, with an
\* InvalidArgument error (not InvalidInput) and no image returned.
C3_InvalidArgument ==
  (Called /\ ValidImage(loaded) /\ ~ValidParam(script, Param)) =>
    /\ ErrorKind(result.err) = "InvalidArgument"
    /\ result.img = NoneImage

C3_Witness ==
  /\ Called
  /\ script = "quantization"
  /\ ValidImage(loaded)
  /\ Param = 0
  /\ result = Raise(ErrBitDepth)

\* C4: both transforms fail with InvalidInput, and return no image, whenever
\* the image is absent, is empty (zero rows or zero columns) or is not made of
\* unsigned 8-bit samples, whatever the parameter.
C4_InvalidInput ==
  (Called /\ (loaded = NoneImage \/ IsEmpty(loaded) \/ loaded.dtype # "uint8")) =>
    /\ ErrorKind(result.err) = "InvalidInput"
    /\ result.img = NoneImage

\* C5: quantization is idempotent: quantizing a quantized image again at the
\* same bitDepth gives the same image, sample for sample.
C5_Idempotent ==
  (pc = "requantized" /\ ValidImage(loaded)) =>
    /\ result2.err = "ok"
    /\ result2.img = result.img

\* quantizing changed the image, and quantizing again changed nothing more
C5_Witness ==
  /\ pc = "requantized"
  /\ ValidImage(loaded)
  /\ Param = 2
  /\ result.img # loaded
  /\ result2 = result

\* C6: output sample (i, j) of reduce_spatial_resolution is the mean of the
\* f x f source block at rows i*f..i*f+f-1 and columns j*f..j*f+f-1 rounded to
\* the nearest integer; trailing partial rows and columns of the source are
\* dropped and influence no output sample.
C6_BlockMean ==
  (Called /\ script = "spatial" /\ ValidImage(loaded) /\ Param >= 1
     /\ result.err = "ok") =>
    \A i \in 1..(loaded.height \div Param) : \A j \in 1..(loaded.width \div Param) :
      2 * Abs(Param * Param * result.img.px[i][j]
                - BlockSum(loaded, Param, (i - 1) * Param + 1, (j - 1) * Param + 1,
                           Param * Param))
        <= Param * Param

\* the same, for the images whose height and width the factor divides
C6_BlockMeanWhenDivisible ==
  (loaded.height % Max(Param, 1) = 0 /\ loaded.width % Max(Param, 1) = 0)
    => C6_BlockMean

(***************************************************************************)
(* Claims about the timing harness and the batch drivers                   *)
(***************************************************************************)
Last(q) == q[Len(q)]

\* the invocations logged for value i by the harness / by the driver itself
Invocations(i, by) == {k \in 1..Len(log) : log[k].i = i /\ log[k].by = by}

HarnessCount(i) == Cardinality(Invocations(i, "harness"))
DisplayCount(i) == Cardinality(Invocations(i, "driver"))

\* the measurement of value i has ended, one way or another
MeasurementOver(i) == i < idx \/ pc # "measure"

\* the measurement of value i returned its latency
MeasurementReturned(i) == Len(execution_times) >= i

\* C7 as stated: the harness always runs to completion of its repetition count,
\* so a measurement that is over has returned, after exactly Repetitions
\* invocations of the transform.
C7_AlwaysCompletes ==
  \A i \in 1..idx :
    MeasurementOver(i) =>
      MeasurementReturned(i) /\ HarnessCount(i) = Repetitions

\* C7, amended: a measurement whose transform does not raise on its image and
\* parameter returns, and has by then invoked the transform exactly
\* Repetitions times, one after another, each on the same image and parameter;
\* a measurement whose transform raises ends with that error at its first
\* invocation.
C7_CompletesUnlessRaised ==
  /\ [](\A i \in 1..idx :
          MeasurementReturned(i) =>
            /\ HarnessCount(i) = Repetitions
            /\ execution_times[i].calls = Repetitions
            /\ \A k \in Invocations(i, "harness") : log[k].err = "ok")
  /\ []((pc = "measure" \/ (log # <<>> /\ Last(log).by = "harness")) =>
          /\ image = loaded
          /\ HarnessCount(idx) = reps + (IF pc = "raised" THEN 1 ELSE 0)
          /\ pc = "raised" => HarnessCount(idx) = 1
          /\ log # <<>> => result = Transform(script, loaded, params[Last(log).i]))
  /\ (pc = "measure" /\ Transform(script, image, params[idx]).err = "ok")
       ~> (pc = "display" /\ MeasurementReturned(idx)
             /\ HarnessCount(idx) = Repetitions)

\* a measurement has returned after its Repetitions invocations
C7_Witness ==
  /\ pc = "display"
  /\ MeasurementReturned(idx)
  /\ HarnessCount(idx) = Repetitions
  /\ Repetitions > 1

\* value i has been processed in full: measured, then transformed once more
Processed(i) ==
  /\ HarnessCount(i) = Repetitions
  /\ DisplayCount(i) = 1
  /\ Len(execution_times) >= i
  /\ Len(out_images) >= i

\* C8: the driver processes the values in input order: for each it completes
\* the harness run (Repetitions invocations), then invokes the transform once
\* more for the output, and only then moves on; when the loop ends both lists
\* are as long as the parameter list, entry i of each belongs to parameter i,
\* and the renderer runs only after every value is processed.
C8_InOrder ==
  /\ \A k \in 1..Len(log) : \A l \in 1..Len(log) :
       k < l =>
         /\ log[k].i <= log[l].i
         /\ (log[k].i = log[l].i /\ log[l].by = "harness") => log[k].by = "harness"
  /\ \A i \in 1..idx :
       /\ DisplayCount(i) <= 1
       /\ DisplayCount(i) = 1 => HarnessCount(i) = Repetitions
       /\ i < idx => Processed(i)
  /\ \A k \in 1..Len(log) : log[k].i <= idx
  /\ Len(out_images) <= Len(execution_times)
  /\ Len(execution_times) <= idx
  /\ \A i \in 1..Len(execution_times) : execution_times[i].param = params[i]
  /\ \A i \in 1..Len(out_images) :
       out_images[i] = Transform(script, loaded, params[i]).img
  /\ pc \in {"render", "done"} =>
       /\ Len(execution_times) = Len(params)
       /\ Len(out_images) = Len(params)
       /\ \A i \in 1..Len(params) : Processed(i)
  /\ pc = "done" <=> rendered # <<>>
  /\ rendered # <<>> =>
       /\ rendered[1].comparison = Zip(params, out_images)
       /\ rendered[1].plot = Zip(params, execution_times)
       /\ Len(rendered[1].comparison) = Len(params)
       /\ Len(rendered[1].plot) = Len(params)

\* a batch of two different valid values, processed and rendered
C8_Witness ==
  /\ pc = "done"
  /\ Len(params) = 2
  /\ params[1] # params[2]
  /\ out_images[1] # out_images[2]
  /\ Len(log) = 2 * (Repetitions + 1)
  /\ rendered # <<>>

InvalidAt == {i \in 1..Len(params) : ~ValidParam(script, params[i])}

FirstInvalid == CHOOSE i \in InvalidAt : \A j \in InvalidAt : i <= j

\* C9: an invalid value in the batch aborts the batch: the error leaves the
\* driver at the first invocation of the transform for that value, no later
\* value is processed, nothing is retried, nothing is rendered, and the values
\* before it were processed in full.
C9_InvalidValueAborts ==
  (pc \notin {"start", "not loaded"} /\ InvalidAt # {}) =>
    /\ rendered = <<>>
    /\ pc \notin {"render", "done"}
    /\ idx <= FirstInvalid
    /\ \A k \in 1..Len(log) : log[k].i <= FirstInvalid
    /\ (idx = FirstInvalid /\ pc # "for") =>
         /\ pc \in {"measure", "raised"}
         /\ reps = 0
         /\ pc = "raised" => ErrorKind(err) = "InvalidArgument"
    /\ pc = "raised" =>
         /\ err # "ok"
         /\ Last(log).err = err
         /\ Last(log).i = idx
         /\ HarnessCount(idx) + DisplayCount(idx) = 1
         /\ Len(execution_times) = idx - 1
         /\ Len(out_images) = idx - 1
         /\ \A i \in 1..(idx - 1) : Processed(i)
         /\ ~ENABLED Next

\* the second value is invalid: the first was processed, then the batch ended
C9_Witness ==
  /\ pc = "raised"
  /\ InvalidAt = {2}
  /\ idx = 2
  /\ Processed(1)
  /\ ErrorKind(err) = "InvalidArgument"
  /\ Len(log) = Repetitions + 2
  /\ rendered = <<>>

\* C10: no call mutates its input: after any sequence of invocations, failing
\* ones included, the input image is the image that was loaded, every
\* invocation saw that image, and the renderer is handed it as the original.
C10_InputUnchanged ==
  /\ pc # "start" => image = loaded
  /\ log # <<>> => result = Transform(script, loaded, params[Last(log).i])
  /\ rendered # <<>> => rendered[1].original = loaded

\* a whole batch ran on an image the transform changes, and the renderer got
\* the image as loaded
C10_Witness ==
  /\ pc = "done"
  /\ Len(log) >= 2 * (Repetitions + 1)
  /\ out_images[1] # loaded
  /\ rendered[1].original = file.decoded

=============================================================================
